---------------------------- MODULE Spec2Model ----------------------------
(***************************************************************************)
(* String Analysis API (app.py): the analyzer, the in-memory store, the    *)
(* filter engine, the natural-language query parser and the five request   *)
(* handlers, as a state machine.                                           *)
(*                                                                         *)
(* A stored string (a "text") is a sequence of characters; a character is  *)
(* written as a one-character string, except the three Greek sigmas, which *)
(* are written by name: "SIGMA" (U+03A3), "sigma" (U+03C3) and "fsigma"    *)
(* (U+03C2, the final sigma).  A natural-language query is a TLA+ string.  *)
(***************************************************************************)
EXTENDS Integers, Sequences, FiniteSets, TLC

VARIABLES
    strings_db,   \* app.py:17, the dict as the sequence of its values in insertion order
    now,          \* the clock datetime.utcnow() reads (app.py:92)
    req,          \* per client: the request that has arrived and is not yet handled
    resp,         \* per client: the response to its last handled request
    created       \* history: value -> body of the 201 that created it, until a 204 deletes it

vars == <<strings_db, now, req, resp, created>>

\* ------------------------------------------------------------------ bounds

\* Longest text submitted under SpecAnalyze.
MaxLen == 3
\* Largest reading of the clock.
MaxNow == 2
\* Most records in a store a query is run against (SpecList, SpecNL).
MaxRecs == 2
\* Largest min_length, max_length and word_count of a structured query.
MaxInt == 3
\* Most fragments a natural-language query is put together from.
MaxFrags == 2

\* ------------------------------------------------------------- characters

Alphabet == {"a", "A", "b", " ", "\t", "'", "SIGMA", "sigma", "fsigma"}

\* All texts of at most n characters.
TextsUpTo(n) == UNION {[1..k -> Alphabet] : k \in 0..n}

\* The clients that send requests; two of them make two requests concurrent.
Clients == {"c1", "c2"}

\* str.isspace(): what str.split() splits on.
IsWhitespace(c) == c \in {" ", "\t"}

\* Unicode property Cased, of the characters of Alphabet.
IsCased(c) == c \in {"a", "A", "b", "SIGMA", "sigma", "fsigma"}

\* Unicode property Case_Ignorable, of the characters of Alphabet.
IsCaseIgnorable(c) == c = "'"

\* The lower-case mapping of one character, context aside.
LowerChar(c) ==
    CASE c = "A" -> "a"
      [] c = "SIGMA" -> "sigma"
      [] OTHER -> c

\* The nearest position before i (step -1) or after i (step 1) whose character
\* is not case-ignorable; 0 or Len(text) + 1 when there is none.
RECURSIVE SkipIgnorable(_, _, _)
SkipIgnorable(text, j, step) ==
    IF j < 1 \/ j > Len(text) THEN j
    ELSE IF IsCaseIgnorable(text[j]) THEN SkipIgnorable(text, j + step, step)
    ELSE j

\* str.lower() on a capital sigma at position i: it is in final position when a
\* cased character precedes it and none follows it, case-ignorable characters
\* skipped on both sides.
FinalSigma(text, i) ==
    LET before == SkipIgnorable(text, i - 1, -1)
        after == SkipIgnorable(text, i + 1, 1)
    IN  /\ before >= 1
        /\ IsCased(text[before])
        /\ (after > Len(text) \/ ~IsCased(text[after]))

\* text.lower()
str_lower(text) ==
    [i \in 1..Len(text) |->
        IF text[i] = "SIGMA"
        THEN (IF FinalSigma(text, i) THEN "fsigma" ELSE "sigma")
        ELSE LowerChar(text[i])]

\* text.replace(" ", "")
remove_spaces(text) == SelectSeq(text, LAMBDA c : c # " ")

\* text[::-1]
Reverse(text) == [i \in 1..Len(text) |-> text[Len(text) + 1 - i]]

\* --------------------------------------------------------------- analyzer

\* The position of a character in Alphabet, from 1.
CharCode(c) ==
    CASE c = "a" -> 1 [] c = "A" -> 2 [] c = "b" -> 3 [] c = " " -> 4
      [] c = "\t" -> 5 [] c = "'" -> 6 [] c = "SIGMA" -> 7 [] c = "sigma" -> 8
      [] c = "fsigma" -> 9

\* hashlib.sha256(text.encode()).hexdigest().  SHA-256 itself is not computed:
\* the digest is the number the text spells, its characters the digits, in a
\* base above every character's code, which, like SHA-256 on the texts
\* considered, gives different texts different digests.
RECURSIVE compute_sha256(_)
compute_sha256(text) ==
    IF text = <<>> THEN 0
    ELSE compute_sha256(SubSeq(text, 1, Len(text) - 1)) * (Cardinality(Alphabet) + 1)
         + CharCode(text[Len(text)])

\* is_palindrome(text)
is_palindrome(text) ==
    LET cleaned == remove_spaces(str_lower(text)) IN cleaned = Reverse(cleaned)

\* len(set(text))
count_unique_characters(text) == Cardinality({text[i] : i \in 1..Len(text)})

\* text.split(): the maximal runs of characters that are not whitespace.
RECURSIVE split(_, _)
split(text, word) ==
    IF text = <<>> THEN (IF word = <<>> THEN <<>> ELSE <<word>>)
    ELSE IF IsWhitespace(Head(text))
         THEN (IF word = <<>> THEN <<>> ELSE <<word>>) \o split(Tail(text), <<>>)
         ELSE split(Tail(text), Append(word, Head(text)))

\* len(text.split())
count_words(text) == Len(split(text, <<>>))

\* dict(Counter(text)): only the characters that occur have a count.
get_character_frequency(text) ==
    [c \in {text[i] : i \in 1..Len(text)} |->
        Cardinality({i \in 1..Len(text) : text[i] = c})]

\* analyze_string(value), with the clock's reading for datetime.utcnow()
analyze_string(value, utcnow) ==
    LET sha256_hash == compute_sha256(value) IN
    [id |-> sha256_hash,
     value |-> value,
     properties |-> [length |-> Len(value),
                     is_palindrome |-> is_palindrome(value),
                     unique_characters |-> count_unique_characters(value),
                     word_count |-> count_words(value),
                     sha256_hash |-> sha256_hash,
                     character_frequency_map |-> get_character_frequency(value)],
     created_at |-> utcnow]

\* ------------------------------------------------------------------ store

\* key in strings_db
InDb(db, key) == \E i \in 1..Len(db) : db[i].id = key

\* strings_db[key]
DbGet(db, key) == db[CHOOSE i \in 1..Len(db) : db[i].id = key]

\* strings_db[key] = record: a present key keeps its place, a new one goes last.
DbSet(db, key, record) ==
    IF InDb(db, key)
    THEN [i \in 1..Len(db) |-> IF db[i].id = key THEN record ELSE db[i]]
    ELSE Append(db, record)

\* del that empties the store.
DbDel_All(db, key) == <<>>

\* del strings_db[key]
DbDel(db, key) == SelectSeq(db, LAMBDA r : r.id # key)

\* ---------------------------------------------------------- filter engine

\* An optional parameter is the empty set (None) or the set of its one value.
Some(opt) == CHOOSE x \in opt : TRUE

\* filters[key] = val added to the dict filters
DictSet(filters, key, val) ==
    [k \in DOMAIN filters \cup {key} |-> IF k = key THEN val ELSE filters[k]]

\* needle in text, for two strings held as sequences of characters
IsSubstring(needle, text) ==
    \E i \in 1..(Len(text) - Len(needle) + 1) :
        SubSeq(text, i, i + Len(needle) - 1) = needle

\* apply_filters(strings_list, filters): one pass over the list per key present.
apply_filters(strings_list, filters) ==
    LET f0 == strings_list
        f1 == IF "is_palindrome" \in DOMAIN filters
              THEN SelectSeq(f0, LAMBDA s :
                     s.properties.is_palindrome = filters["is_palindrome"])
              ELSE f0
        f2 == IF "min_length" \in DOMAIN filters
              THEN SelectSeq(f1, LAMBDA s :
                     s.properties.length >= filters["min_length"])
              ELSE f1
        f3 == IF "max_length" \in DOMAIN filters
              THEN SelectSeq(f2, LAMBDA s :
                     s.properties.length <= filters["max_length"])
              ELSE f2
        f4 == IF "word_count" \in DOMAIN filters
              THEN SelectSeq(f3, LAMBDA s :
                     s.properties.word_count = filters["word_count"])
              ELSE f3
        f5 == IF "contains_character" \in DOMAIN filters
              THEN LET char == filters["contains_character"]
                   IN  SelectSeq(f4, LAMBDA s : IsSubstring(char, str_lower(s.value)))
              ELSE f4
    IN  f5

\* ------------------------------------------------------ query interpreter

UpperLetters == "ABCDEFGHIJKLMNOPQRSTUVWXYZ"
LowerLetters == "abcdefghijklmnopqrstuvwxyz"
Digits == "0123456789"

\* The character of string s at position i, as a one-character string.
At(s, i) == SubSeq(s, i, i)

\* Whether one-character string ch occurs in string s.
OneOf(ch, s) == \E k \in 1..Len(s) : At(s, k) = ch

\* The position of ch in s.
IndexIn(ch, s) == CHOOSE k \in 1..Len(s) : At(s, k) = ch

\* query.lower(), for a query of ASCII characters
RECURSIVE query_lower(_)
query_lower(query) ==
    IF query = "" THEN ""
    ELSE LET ch == At(query, 1)
             lo == IF OneOf(ch, UpperLetters)
                   THEN At(LowerLetters, IndexIn(ch, UpperLetters))
                   ELSE ch
         IN  lo \o query_lower(SubSeq(query, 2, Len(query)))

\* Whether string s has pattern at position i.
HasAt(s, i, pattern) ==
    /\ i >= 1
    /\ i + Len(pattern) - 1 <= Len(s)
    /\ SubSeq(s, i, i + Len(pattern) - 1) = pattern

\* pattern in s
Contains(s, pattern) == \E i \in 1..(Len(s) + 1) : HasAt(s, i, pattern)

\* The end of the longest run of digits of s that starts at position i (i - 1
\* when position i holds no digit): what \d+ takes.
RECURSIVE DigitsEnd(_, _)
DigitsEnd(s, i) ==
    IF i <= Len(s) /\ OneOf(At(s, i), Digits) THEN DigitsEnd(s, i + 1) ELSE i - 1

\* int(digits)
RECURSIVE int(_)
int(digits) ==
    IF digits = "" THEN 0
    ELSE int(SubSeq(digits, 1, Len(digits) - 1)) * 10
         + (IndexIn(At(digits, Len(digits)), Digits) - 1)

\* re.search(prefix + r'(\d+)', s): group 1 of the leftmost match as an optional.
SearchNumber(s, prefix) ==
    LET starts == {i \in 1..Len(s) :
                     /\ HasAt(s, i, prefix)
                     /\ DigitsEnd(s, i + Len(prefix)) >= i + Len(prefix)}
    IN  IF starts = {} THEN {}
        ELSE LET i == CHOOSE k \in starts : \A m \in starts : k <= m
                 from == i + Len(prefix)
             IN  {SubSeq(s, from, DigitsEnd(s, from))}

\* Where "(?:ing|s)? " ends when it starts at position i of s: the positions
\* after the space, one per way the optional group can match.
AfterSuffix(s, i) ==
    {i + Len(suffix) + 1 : suffix \in {x \in {"ing", "s", ""} : HasAt(s, i, x \o " ")}}

\* Where "(?:the )?letter " ends when it starts at position i of s.
AfterLetter(s, i) ==
    {i + Len(article) + 7 :
        article \in {x \in {"the ", ""} : HasAt(s, i, x \o "letter ")}}

\* re.search(r'contain(?:ing|s)? (?:the )?letter ([a-z])', s): group 1 of the
\* leftmost match as an optional.
SearchLetter(s) ==
    LET Captured(i) ==
            IF HasAt(s, i, "contain")
            THEN {At(s, k) : k \in {e \in UNION {AfterLetter(s, j) : j \in AfterSuffix(s, i + 7)} :
                                      e <= Len(s) /\ OneOf(At(s, e), LowerLetters)}}
            ELSE {}
        starts == {i \in 1..Len(s) : Captured(i) # {}}
    IN  IF starts = {} THEN {}
        ELSE Captured(CHOOSE k \in starts : \A m \in starts : k <= m)

\* The length rules with "at least" and "longer than" in the opposite order:
\* "longer than" is applied last and overwrites.
ParseLength_LongerLast(q, filters) ==
    LET atleast == SearchNumber(q, "at least ")
        f1 == IF atleast # {}
              THEN DictSet(filters, "min_length", int(Some(atleast))) ELSE filters
        shorter == SearchNumber(q, "shorter than ")
        f2 == IF shorter # {}
              THEN DictSet(f1, "max_length", int(Some(shorter)) - 1) ELSE f1
        longer == SearchNumber(q, "longer than ")
        f3 == IF longer # {}
              THEN DictSet(f2, "min_length", int(Some(longer)) + 1) ELSE f2
    IN  f3

\* parse_natural_language_query, "# Parse length requirements": "longer than",
\* then "shorter than", then "at least", each writing its key.
ParseLength(q, filters) ==
    LET longer == SearchNumber(q, "longer than ")
        f1 == IF longer # {}
              THEN DictSet(filters, "min_length", int(Some(longer)) + 1) ELSE filters
        shorter == SearchNumber(q, "shorter than ")
        f2 == IF shorter # {}
              THEN DictSet(f1, "max_length", int(Some(shorter)) - 1) ELSE f1
        atleast == SearchNumber(q, "at least ")
        f3 == IF atleast # {}
              THEN DictSet(f2, "min_length", int(Some(atleast))) ELSE f2
    IN  f3

\* parse_natural_language_query(query)
parse_natural_language_query(query) ==
    LET q == query_lower(query)
        f0 == <<>>
        f1 == IF Contains(q, "palindrom") THEN DictSet(f0, "is_palindrome", TRUE) ELSE f0
        f2 == IF Contains(q, "single word") \/ Contains(q, "one word")
              THEN DictSet(f1, "word_count", 1)
              ELSE IF Contains(q, "two word") THEN DictSet(f1, "word_count", 2)
              ELSE IF Contains(q, "three word") THEN DictSet(f1, "word_count", 3)
              ELSE f1
        f3 == ParseLength(q, f2)
        letter == SearchLetter(q)
        f4 == IF letter # {} THEN DictSet(f3, "contains_character", <<Some(letter)>>) ELSE f3
        f5 == IF Contains(q, "first vowel") THEN DictSet(f4, "contains_character", <<"a">>) ELSE f4
    IN  f5

\* ------------------------------------------------------ requests, responses

NoReq == [op |-> "none"]
NoResp == [request |-> NoReq, response |-> [status |-> 0]]

Pending(c, op) == req[c].op = op

\* The history of successful creations: a 201 records the body it returned for
\* the request's value, a 204 forgets the value; nothing else changes it.
Observe(hist, request, response) ==
    IF request.op = "create" /\ response.status = 201
    THEN [v \in DOMAIN hist \cup {request.value} |->
            IF v = request.value THEN response.body ELSE hist[v]]
    ELSE IF request.op = "delete" /\ response.status = 204
    THEN [v \in DOMAIN hist \ {request.value} |-> hist[v]]
    ELSE hist

\* The handler for client c returns: the response is recorded beside the request
\* it answers, and the request is done.
Reply(c, response) ==
    /\ resp' = [resp EXCEPT ![c] = [request |-> req[c], response |-> response]]
    /\ created' = Observe(created, req[c], response)
    /\ req' = [req EXCEPT ![c] = NoReq]

\* --------------------------------------------------------------- handlers

\* create_string answering Conflict for a stored value, yet writing a fresh
\* analysis over its record.
create_string_Overwrites(c) ==
    /\ Pending(c, "create")
    /\ LET value == req[c].value
           sha256_hash == compute_sha256(value)
           result == analyze_string(value, now)
       IN  /\ strings_db' = DbSet(strings_db, sha256_hash, result)
           /\ IF InDb(strings_db, sha256_hash)
              THEN Reply(c, [status |-> 409,
                             detail |-> "String already exists in the system"])
              ELSE Reply(c, [status |-> 201, body |-> result])
    /\ UNCHANGED now

\* create_string without the check that the value is already stored.
create_string_Unchecked(c) ==
    /\ Pending(c, "create")
    /\ LET value == req[c].value
           sha256_hash == compute_sha256(value)
           result == analyze_string(value, now)
       IN  /\ strings_db' = DbSet(strings_db, sha256_hash, result)
           /\ Reply(c, [status |-> 201, body |-> result])
    /\ UNCHANGED now

\* POST /strings.  The handler is a coroutine without an await: the event loop
\* runs it from its first line to its return before any other handler runs.
create_string(c) ==
    /\ Pending(c, "create")
    /\ LET value == req[c].value
           sha256_hash == compute_sha256(value)
       IN  IF InDb(strings_db, sha256_hash)
           THEN /\ Reply(c, [status |-> 409,
                             detail |-> "String already exists in the system"])
                /\ UNCHANGED strings_db
           ELSE LET result == analyze_string(value, now)
                IN  /\ strings_db' = DbSet(strings_db, sha256_hash, result)
                    /\ Reply(c, [status |-> 201, body |-> result])
    /\ UNCHANGED now

\* filter_by_natural_language without the check for an empty filter set.
filter_by_natural_language_NoCheck(c) ==
    /\ Pending(c, "nl")
    /\ LET query == req[c].query
           filters == parse_natural_language_query(query)
           filtered_strings == apply_filters(strings_db, filters)
       IN  Reply(c, [status |-> 200,
                     data |-> filtered_strings,
                     count |-> Len(filtered_strings),
                     interpreted_query |-> [original |-> query,
                                            parsed_filters |-> filters]])
    /\ UNCHANGED <<strings_db, now>>

\* GET /strings/filter-by-natural-language?query=...
filter_by_natural_language(c) ==
    /\ Pending(c, "nl")
    /\ \E filters \in {parse_natural_language_query(req[c].query)} :
         IF DOMAIN filters = {}
         THEN Reply(c, [status |-> 400,
                        detail |-> "Unable to parse natural language query"])
         ELSE \E filtered_strings \in {apply_filters(strings_db, filters)} :
                Reply(c, [status |-> 200,
                          data |-> filtered_strings,
                          count |-> Len(filtered_strings),
                          interpreted_query |-> [original |-> req[c].query,
                                                 parsed_filters |-> filters]])
    /\ UNCHANGED <<strings_db, now>>

\* The validation of get_all_strings with ">=" for ">": equal bounds are refused.
InvalidRange_Inclusive(min_length, max_length) ==
    min_length # {} /\ max_length # {} /\ Some(min_length) >= Some(max_length)

\* The validation of get_all_strings (app.py:208)
InvalidRange(min_length, max_length) ==
    min_length # {} /\ max_length # {} /\ Some(min_length) > Some(max_length)

\* The filters dictionary get_all_strings builds from its parameters.
BuildFilters(r) ==
    LET f0 == <<>>
        f1 == IF r.is_palindrome # {}
              THEN DictSet(f0, "is_palindrome", Some(r.is_palindrome)) ELSE f0
        f2 == IF r.min_length # {}
              THEN DictSet(f1, "min_length", Some(r.min_length)) ELSE f1
        f3 == IF r.max_length # {}
              THEN DictSet(f2, "max_length", Some(r.max_length)) ELSE f2
        f4 == IF r.word_count # {}
              THEN DictSet(f3, "word_count", Some(r.word_count)) ELSE f3
        f5 == IF r.contains_character # {}
              THEN DictSet(f4, "contains_character",
                           str_lower(<<Some(r.contains_character)>>))
              ELSE f4
    IN  f5

\* GET /strings
get_all_strings(c) ==
    /\ Pending(c, "list")
    /\ IF InvalidRange(req[c].min_length, req[c].max_length)
       THEN Reply(c, [status |-> 400,
                      detail |-> "min_length cannot be greater than max_length"])
       ELSE LET filters == BuildFilters(req[c])
                all_strings == strings_db
                filtered_strings == apply_filters(all_strings, filters)
            IN  Reply(c, [status |-> 200,
                          data |-> filtered_strings,
                          count |-> Len(filtered_strings),
                          filters_applied |-> filters])
    /\ UNCHANGED <<strings_db, now>>

\* GET /strings/{string_value}
get_string(c) ==
    /\ Pending(c, "get")
    /\ LET sha256_hash == compute_sha256(req[c].value)
       IN  IF ~InDb(strings_db, sha256_hash)
           THEN Reply(c, [status |-> 404,
                          detail |-> "String does not exist in the system"])
           ELSE Reply(c, [status |-> 200, body |-> DbGet(strings_db, sha256_hash)])
    /\ UNCHANGED <<strings_db, now>>

\* delete_string answering 204 without removing the record.
delete_string_KeepsRecord(c) ==
    /\ Pending(c, "delete")
    /\ LET sha256_hash == compute_sha256(req[c].value)
       IN  IF ~InDb(strings_db, sha256_hash)
           THEN Reply(c, [status |-> 404,
                          detail |-> "String does not exist in the system"])
           ELSE Reply(c, [status |-> 204])
    /\ UNCHANGED <<strings_db, now>>

\* DELETE /strings/{string_value}
delete_string(c) ==
    /\ Pending(c, "delete")
    /\ LET sha256_hash == compute_sha256(req[c].value)
       IN  IF ~InDb(strings_db, sha256_hash)
           THEN /\ Reply(c, [status |-> 404,
                             detail |-> "String does not exist in the system"])
                /\ UNCHANGED strings_db
           ELSE /\ strings_db' = DbDel(strings_db, sha256_hash)
                /\ Reply(c, [status |-> 204])
    /\ UNCHANGED now

\* ------------------------------------------ specification: the protocol

\* The values the clients of Spec and SpecRace submit, fetch and delete.
StoreValues == {<<"a", "b">>, <<"A", " ", "a">>}

NoFilters ==
    [op |-> "list", is_palindrome |-> {}, min_length |-> {}, max_length |-> {},
     word_count |-> {}, contains_character |-> {}]

\* The requests the clients of Spec send.
Requests ==
    {[op |-> o, value |-> v] : o \in {"create", "get", "delete"}, v \in StoreValues}
    \cup {NoFilters, [NoFilters EXCEPT !.min_length = {2}, !.max_length = {1}]}
    \cup {[op |-> "nl", query |-> q] : q \in {"palindromic strings", "gibberish"}}

Init ==
    /\ strings_db = <<>>
    /\ now = 0
    /\ req = [c \in Clients |-> NoReq]
    /\ resp = [c \in Clients |-> NoResp]
    /\ created = <<>>

\* A request of client c arrives; it waits for the event loop to run its handler.
Send(c, request) ==
    /\ req[c] = NoReq
    /\ req' = [req EXCEPT ![c] = request]
    /\ resp' = [resp EXCEPT ![c] = NoResp]
    /\ UNCHANGED <<strings_db, now, created>>

\* Time passes.
Tick ==
    /\ now < MaxNow
    /\ now' = now + 1
    /\ UNCHANGED <<strings_db, req, resp, created>>

Next ==
    \/ \E c \in Clients, request \in Requests : Send(c, request)
    \/ \E c \in Clients : create_string(c)
    \/ \E c \in Clients : get_string(c)
    \/ \E c \in Clients : delete_string(c)
    \/ \E c \in Clients : get_all_strings(c)
    \/ \E c \in Clients : filter_by_natural_language(c)
    \/ Tick

Spec == Init /\ [][Next]_vars

\* ---------------------------------------- specification: concurrent creates

\* The stores the requests of a history can build from the given values by time
\* utcnow: every sequence of at most n records of different values.
StoresOf(values, n, utcnow) ==
    {[i \in 1..Len(vs) |-> analyze_string(vs[i], utcnow)] :
        vs \in {f \in UNION {[1..k -> values] : k \in 0..n} :
                  \A i, j \in 1..Len(f) : i # j => f[i] # f[j]}}

\* Two clients have each sent a Create of the same value, which the store does
\* not hold; neither request has been handled yet.
InitRace ==
    /\ now = 0
    /\ \E value \in TextsUpTo(MaxLen - 1) :
         /\ strings_db \in StoresOf(StoreValues \ {value}, MaxRecs, 0)
         /\ req = [c \in Clients |-> [op |-> "create", value |-> value]]
    /\ resp = [c \in Clients |-> NoResp]
    /\ created = [i \in {strings_db[k].value : k \in 1..Len(strings_db)} |->
                    analyze_string(i, 0)]

NextRace ==
    \/ \E c \in Clients : create_string(c)
    \/ Tick

SpecRace == InitRace /\ [][NextRace]_vars

\* ------------------------------------------ specification: structured query

\* The values of the records the queries of SpecList and SpecNL run against.
QueryValues == {<<>>, <<"A">>, <<"a", " ", "b">>, <<"b", "SIGMA">>}

\* An optional integer parameter that passed the validation Query(None, ge=0).
OptNat == {{}} \cup {{n} : n \in 0..MaxInt}

\* The structured queries: every parameter absent or present.
ListRequests ==
    [op : {"list"},
     is_palindrome : {{}, {TRUE}, {FALSE}},
     min_length : OptNat,
     max_length : OptNat,
     word_count : OptNat,
     contains_character : {{}} \cup {{ch} : ch \in {"a", "A", "b", "SIGMA", "sigma"}}]

\* A store of analyzed records and one structured query, not yet handled.
InitList ==
    /\ now = 0
    /\ strings_db \in StoresOf(QueryValues, MaxRecs, 0)
    /\ \E request \in ListRequests :
         req = [c \in Clients |-> IF c = "c1" THEN request ELSE NoReq]
    /\ resp = [c \in Clients |-> NoResp]
    /\ created = [i \in {strings_db[k].value : k \in 1..Len(strings_db)} |->
                    analyze_string(i, 0)]

NextList == \E c \in Clients : get_all_strings(c)

SpecList == InitList /\ [][NextList]_vars

\* ------------------------------------ specification: natural-language query

\* What a natural-language query is put together from: a piece of text, the
\* pattern of parse_natural_language_query it is an instance of ("none" when it
\* is an instance of none), and the number or the letter the pattern captures.
Fragments ==
    {[text |-> "Palindromic", kind |-> "palindrome", num |-> 0, ch |-> ""],
     [text |-> "single word", kind |-> "word_count", num |-> 1, ch |-> ""],
     [text |-> "one word", kind |-> "word_count", num |-> 1, ch |-> ""],
     [text |-> "two words", kind |-> "word_count", num |-> 2, ch |-> ""],
     [text |-> "three word", kind |-> "word_count", num |-> 3, ch |-> ""],
     [text |-> "LONGER THAN 02", kind |-> "longer", num |-> 2, ch |-> ""],
     [text |-> "shorter than 3", kind |-> "shorter", num |-> 3, ch |-> ""],
     [text |-> "at least 2", kind |-> "at_least", num |-> 2, ch |-> ""],
     [text |-> "containing the letter b", kind |-> "letter", num |-> 0, ch |-> "b"],
     [text |-> "contains letter A", kind |-> "letter", num |-> 0, ch |-> "a"],
     [text |-> "first vowel", kind |-> "vowel", num |-> 0, ch |-> "a"],
     [text |-> "gibberish xyz", kind |-> "none", num |-> 0, ch |-> ""],
     [text |-> "longer than ten", kind |-> "none", num |-> 0, ch |-> ""]}

\* The fragments' texts, a space between two.
RECURSIVE Phrase(_)
Phrase(frags) ==
    IF Len(frags) = 1 THEN frags[1].text
    ELSE frags[1].text \o " " \o Phrase(Tail(frags))

\* The natural-language queries: one to MaxFrags fragments (Query(..., min_length=1)
\* admits no empty query).  "frags" is how the client put the query together;
\* the handler reads "query" alone.
NLRequests ==
    {[op |-> "nl", query |-> Phrase(frags), frags |-> frags] :
        frags \in UNION {[1..k -> Fragments] : k \in 1..MaxFrags}}

\* A store of analyzed records and one natural-language query, not yet handled.
InitNL ==
    /\ now = 0
    /\ strings_db \in StoresOf(QueryValues, MaxRecs, 0)
    /\ \E request \in NLRequests :
         req = [c \in Clients |-> IF c = "c1" THEN request ELSE NoReq]
    /\ resp = [c \in Clients |-> NoResp]
    /\ created = [i \in {strings_db[k].value : k \in 1..Len(strings_db)} |->
                    analyze_string(i, 0)]

NextNL == \E c \in Clients : filter_by_natural_language(c)

SpecNL == InitNL /\ [][NextNL]_vars

\* ------------------------------------------------ specification: analysis

\* One client has submitted a text to an empty store.
InitAnalyze ==
    /\ strings_db = <<>>
    /\ now = 0
    /\ \E value \in TextsUpTo(MaxLen) :
         req = [c \in Clients |->
                  IF c = "c1" THEN [op |-> "create", value |-> value] ELSE NoReq]
    /\ resp = [c \in Clients |-> NoResp]
    /\ created = <<>>

NextAnalyze == \E c \in Clients : create_string(c)

SpecAnalyze == InitAnalyze /\ [][NextAnalyze]_vars

\* ------------------------------------------------------------ properties

\* The records of a store.
Records(db) == {db[i] : i \in 1..Len(db)}

\* The records of a store that hold value v.
RecordsOf(db, v) == {r \in Records(db) : r.value = v}

\* In this step the handler of client c's request runs.
Handled(c) == req[c] # NoReq /\ req'[c] = NoReq

\* The response client c holds answers a request of kind op.
Answered(c, op) == resp[c].request.op = op

\* Unicode case folding of one character: all three sigmas fold to one.
CaseFold(ch) ==
    CASE ch = "A" -> "a"
      [] ch \in {"SIGMA", "fsigma"} -> "sigma"
      [] OTHER -> ch

\* Character ch occurs in text when case is ignored.
OccursIgnoringCase(ch, text) ==
    \E i \in 1..Len(text) : CaseFold(text[i]) = CaseFold(ch)

\* A record satisfies every key present in a filter set (spec 4.3).
Satisfies(r, filters) ==
    /\ "is_palindrome" \in DOMAIN filters
         => r.properties.is_palindrome = filters["is_palindrome"]
    /\ "min_length" \in DOMAIN filters
         => r.properties.length >= filters["min_length"]
    /\ "max_length" \in DOMAIN filters
         => r.properties.length <= filters["max_length"]
    /\ "word_count" \in DOMAIN filters
         => r.properties.word_count = filters["word_count"]
    /\ "contains_character" \in DOMAIN filters
         => OccursIgnoringCase(filters["contains_character"][1], r.value)

\* The filter set a successful query response reports.
ReportedFilters(response) ==
    IF "filters_applied" \in DOMAIN response
    THEN response.filters_applied
    ELSE response.interpreted_query.parsed_filters

\* C1: a Create of a value that an earlier Create stored, and no Delete has
\* removed since, is answered Conflict and leaves the store as it was: the
\* store holds one record for the value, the one the first Create returned.
C1_DuplicateCreateConflicts ==
    [][\A c \in Clients :
         (Handled(c) /\ req[c].op = "create" /\ req[c].value \in DOMAIN created)
         => /\ resp'[c].response.status = 409
            /\ strings_db' = strings_db
            /\ RecordsOf(strings_db', req[c].value) = {created[req[c].value]}
            /\ Cardinality({i \in 1..Len(strings_db') :
                              strings_db'[i].value = req[c].value}) = 1]_vars

\* C1 witness: a Create was answered Conflict for a value whose record, written
\* at an earlier time, is still the one in the store.
C1_Witness ==
    \E c \in Clients :
        /\ Answered(c, "create")
        /\ resp[c].response.status = 409
        /\ resp[c].request.value \in DOMAIN created
        /\ created[resp[c].request.value].created_at < now
        /\ created[resp[c].request.value] \in Records(strings_db)

\* C2: of two Creates of the same value that are pending together against a
\* store without that value, never both succeed, and once both are handled
\* one was answered created (201) and the other Conflict (409).
C2_ConcurrentCreatesOneWinner ==
    LET handled == {c \in Clients : Answered(c, "create")}
        won == {c \in handled : resp[c].response.status = 201}
        lost == {c \in handled : resp[c].response.status = 409}
    IN  /\ Cardinality(won) <= 1
        /\ handled = Clients => Cardinality(won) = 1 /\ Cardinality(lost) = 1

\* C2 witness: both Creates are handled and the second client's won.
C2_Witness ==
    /\ \A c \in Clients : Answered(c, "create")
    /\ resp["c2"].response.status = 201
    /\ resp["c1"].response.status = 409

\* C3: a Get of a value whose record a Delete removed (or that was never
\* created) is answered NotFound until a Create of it succeeds again; a Delete
\* of a value with no record is answered NotFound and leaves the store as it was.
C3_DeletedIsNotFound ==
    [][\A c \in Clients :
         /\ (Handled(c) /\ req[c].op = "get" /\ req[c].value \notin DOMAIN created)
            => resp'[c].response.status = 404
         /\ (Handled(c) /\ req[c].op = "delete" /\ req[c].value \notin DOMAIN created)
            => resp'[c].response.status = 404 /\ strings_db' = strings_db
         /\ (Handled(c) /\ req[c].op = "delete" /\ req[c].value \in DOMAIN created)
            => resp'[c].response.status = 204]_vars

\* C3 witness: one client's Delete of a value succeeded and the other client's
\* Get of the same value was answered NotFound.
C3_Witness ==
    \E c, d \in Clients :
        /\ Answered(c, "delete") /\ resp[c].response.status = 204
        /\ Answered(d, "get") /\ resp[d].response.status = 404
        /\ resp[c].request.value = resp[d].request.value
        /\ resp[c].request.value \notin DOMAIN created

\* C4: a successful query returns exactly the stored records that satisfy every
\* filter key present, in the store's order, with their number as count; with
\* no key present it returns the store as it is.
C4_ApplyReturnsExactlyTheSatisfying ==
    \A c \in Clients :
        (Answered(c, "list") \/ Answered(c, "nl")) /\ resp[c].response.status = 200
        => LET filters == ReportedFilters(resp[c].response)
           IN  /\ resp[c].response.data
                    = SelectSeq(strings_db, LAMBDA r : Satisfies(r, filters))
               /\ resp[c].response.count = Len(resp[c].response.data)
               /\ DOMAIN filters = {} => resp[c].response.data = strings_db

\* C5: the natural-language query is answered Unparseable exactly when none of
\* its fragments is an instance of a recognized pattern; a successful answer
\* echoes the query and a non-empty filter set, and its data are the stored
\* records that satisfy that filter set.
C5_UnparseableIffNoPattern ==
    \A c \in Clients :
        Answered(c, "nl")
        => LET frags == resp[c].request.frags
               response == resp[c].response
               recognized == \E i \in 1..Len(frags) : frags[i].kind # "none"
           IN  /\ response.status = (IF recognized THEN 200 ELSE 400)
               /\ response.status = 400 => "data" \notin DOMAIN response
               /\ response.status = 200 =>
                    /\ response.interpreted_query.original = resp[c].request.query
                    /\ DOMAIN response.interpreted_query.parsed_filters # {}
                    /\ response.data
                         = SelectSeq(strings_db, LAMBDA r :
                             Satisfies(r, response.interpreted_query.parsed_filters))
                    /\ response.count = Len(response.data)

\* C5 witness: a query with no recognized pattern was answered Unparseable
\* while the store held records.
C5_Witness ==
    \E c \in Clients :
        /\ Answered(c, "nl")
        /\ resp[c].response.status = 400
        /\ strings_db # <<>>

\* The first fragment of the given kind, as an optional.
FirstOfKind(frags, kind) ==
    LET at == {i \in 1..Len(frags) : frags[i].kind = kind}
    IN  IF at = {} THEN {} ELSE {frags[CHOOSE i \in at : \A j \in at : i <= j]}

\* The value of key in the filter set a natural-language response echoes, as an
\* optional; an Unparseable answer stands for the empty filter set.
ParsedKey(response, key) ==
    IF response.status = 200
       /\ key \in DOMAIN response.interpreted_query.parsed_filters
    THEN {response.interpreted_query.parsed_filters[key]}
    ELSE {}

\* C6: min_length is N when the query has "at least N", wherever "longer than M"
\* stands beside it; else M + 1 when it has "longer than M"; else absent.
\* "shorter than N" gives max_length = N - 1 and has no part in min_length.
C6_MinLengthAtLeastWins ==
    \A c \in Clients :
        Answered(c, "nl")
        => LET frags == resp[c].request.frags
               at_least == FirstOfKind(frags, "at_least")
               longer == FirstOfKind(frags, "longer")
               shorter == FirstOfKind(frags, "shorter")
           IN  /\ ParsedKey(resp[c].response, "min_length")
                    = (IF at_least # {} THEN {Some(at_least).num}
                       ELSE IF longer # {} THEN {Some(longer).num + 1}
                       ELSE {})
               /\ ParsedKey(resp[c].response, "max_length")
                    = (IF shorter # {} THEN {Some(shorter).num - 1} ELSE {})

\* C6 witness: "at least 2" stands before "longer than 02" in the query, and
\* the answer's min_length is 2.
C6_Witness ==
    \E c \in Clients :
        /\ Answered(c, "nl")
        /\ Len(resp[c].request.frags) >= 2
        /\ resp[c].request.frags[1].kind = "at_least"
        /\ resp[c].request.frags[2].kind = "longer"
        /\ ParsedKey(resp[c].response, "min_length") = {2}

\* The record's length is within the bounds the request supplies.
WithinBounds(r, request) ==
    /\ request.min_length # {} => r.properties.length >= Some(request.min_length)
    /\ request.max_length # {} => r.properties.length <= Some(request.max_length)

\* C7: a structured query with both bounds and min_length > max_length is
\* answered InvalidRange (400) without a collection; any other is answered 200
\* with a collection of stored records within the bounds (all of them, when
\* only bounds are supplied), its count, and the filters applied: one key per
\* parameter supplied, with the value supplied.
C7_InvalidRangeIffMinAboveMax ==
    \A c \in Clients :
        Answered(c, "list")
        => LET request == resp[c].request
               response == resp[c].response
           IN  IF /\ request.min_length # {}
                  /\ request.max_length # {}
                  /\ Some(request.min_length) > Some(request.max_length)
               THEN /\ response.status = 400
                    /\ DOMAIN response \cap {"data", "count", "filters_applied"} = {}
               ELSE /\ response.status = 200
                    /\ response.count = Len(response.data)
                    /\ Records(response.data)
                         \subseteq {r \in Records(strings_db) : WithinBounds(r, request)}
                    /\ (request.is_palindrome = {} /\ request.word_count = {}
                        /\ request.contains_character = {})
                       => response.data
                            = SelectSeq(strings_db, LAMBDA r : WithinBounds(r, request))
                    /\ DOMAIN response.filters_applied
                         = {k \in {"is_palindrome", "min_length", "max_length",
                                   "word_count", "contains_character"} :
                              request[k] # {}}
                    /\ \A k \in DOMAIN response.filters_applied
                                  \ {"contains_character"} :
                         response.filters_applied[k] = Some(request[k])

\* C7 witness: a query with min_length above max_length was answered 400 while
\* the store held a record no longer than max_length.
C7_Witness ==
    \E c \in Clients :
        /\ Answered(c, "list")
        /\ resp[c].response.status = 400
        /\ resp[c].request.min_length # {}
        /\ resp[c].request.max_length # {}
        /\ \E r \in Records(strings_db) :
             r.properties.length <= Some(resp[c].request.max_length)

\* C8: a query whose only filter is contains_character = ch returns exactly the
\* stored records in whose value ch occurs when case is ignored, ch being the
\* character the structured query supplied or the letter the phrase named.
C8_ContainsCharacterIgnoresCase ==
    \A c \in Clients :
        /\ (Answered(c, "list") \/ Answered(c, "nl"))
        /\ resp[c].response.status = 200
        /\ DOMAIN ReportedFilters(resp[c].response) = {"contains_character"}
        => LET ch == IF Answered(c, "list")
                     THEN Some(resp[c].request.contains_character)
                     ELSE ReportedFilters(resp[c].response)["contains_character"][1]
           IN  resp[c].response.data
                 = SelectSeq(strings_db, LAMBDA r : OccursIgnoringCase(ch, r.value))

\* The text with its case folded and its space characters removed.
FoldedWithoutSpaces(text) ==
    SelectSeq([i \in 1..Len(text) |-> CaseFold(text[i])], LAMBDA ch : ch # " ")

\* C9: is_palindrome is true exactly when the value, case folded and its space
\* characters (no other character) removed, reads the same in both directions.
C9_PalindromeIffFoldedSymmetric ==
    \A c \in Clients :
        Answered(c, "create") /\ resp[c].response.status = 201
        => LET folded == FoldedWithoutSpaces(resp[c].request.value)
           IN  resp[c].response.body.properties.is_palindrome
                 = (\A i \in 1..Len(folded) : folded[i] = folded[Len(folded) + 1 - i])

\* C10: every stored record stays in the store, unchanged in every field, over
\* every step but the successful Delete of its own value, and no other record
\* for its value appears; Get, List/filter and Natural-language filter leave the
\* whole store as it was.
C10_RecordsImmutable ==
    [][/\ \A r \in Records(strings_db) :
            \/ /\ r \in Records(strings_db')
               /\ RecordsOf(strings_db', r.value) = {r}
            \/ \E c \in Clients :
                 /\ Handled(c)
                 /\ req[c] = [op |-> "delete", value |-> r.value]
                 /\ resp'[c].response.status = 204
       /\ \A c \in Clients :
            Handled(c) /\ req[c].op \in {"get", "list", "nl"}
            => strings_db' = strings_db]_vars

\* C10 witness: a record written at an earlier time is in the store as the
\* Create returned it, after a conflicting Create of its value and a successful
\* Delete of another value.
C10_Witness ==
    \E c, d \in Clients :
        /\ Answered(c, "create") /\ resp[c].response.status = 409
        /\ Answered(d, "delete") /\ resp[d].response.status = 204
        /\ resp[d].request.value # resp[c].request.value
        /\ resp[c].request.value \in DOMAIN created
        /\ created[resp[c].request.value].created_at < now
        /\ created[resp[c].request.value] \in Records(strings_db)

\* ------------------------------------------------- scope of C4, C8 and C9

Sigmas == {"SIGMA", "sigma", "fsigma"}

\* The statements of C4 and C8 hold of every query against a store none of
\* whose values holds a sigma.
C4_C8_HoldWithoutSigma ==
    (\A r \in Records(strings_db) : \A i \in 1..Len(r.value) : r.value[i] \notin Sigmas)
    => C4_ApplyReturnsExactlyTheSatisfying /\ C8_ContainsCharacterIgnoresCase

\* The statement of C9 holds of every value that holds no sigma.
C9_HoldsWithoutSigma ==
    (\A c \in Clients :
        Answered(c, "create")
        => \A i \in 1..Len(resp[c].request.value) :
             resp[c].request.value[i] \notin Sigmas)
    => C9_PalindromeIffFoldedSymmetric

=============================================================================
